---- MODULE Spec2Model ----
(***************************************************************************)
(* Plateau detection (app/analytics/plateau.py): detect_plateau and its    *)
(* numeric helpers, as a state machine that runs one call step by step.    *)
(*                                                                         *)
(* Units.  A date is a day ordinal (an integer), a datetime is an hour     *)
(* ordinal (day * 24 + hour).  A weight is an integer number of hundredths *)
(* of a pound, a sodium value an integer number of milligrams.  The code   *)
(* computes in binary floating point; the model computes the same          *)
(* expressions exactly, as fractions of integers: a smoothed series is a   *)
(* sequence of numerators over one common denominator, a slope is a pair   *)
(* <<numerator, denominator>>, a median is kept doubled.  The rounded      *)
(* fields of the report are the exact values rounded half to even; where   *)
(* the exact value is a tie, the float the code rounds may sit on either   *)
(* side of it, and the code's last digit may differ by one.                *)
(***************************************************************************)
EXTENDS Integers, Sequences, FiniteSets, TLC

VARIABLES
    weighins,        \* argument: the list of weigh-in records
    sodium_series,   \* argument: [given |-> BOOLEAN, rows |-> list of records]
    params,          \* the keyword arguments
    later_sodium,    \* the sodium_series arguments of the calls still to come
    pc,              \* position inside detect_plateau
    cleaned,         \* local: the cleaned, date-sorted (date, weight) pairs
    win,             \* locals: start_date, end_date, window_points, n
    smooth,          \* locals: method, smoothed, dates_s (and whether it is bound)
    stats,           \* locals: slope, medians, net, gates, severity
    report,          \* the returned dict (NoReport until the call returns)
    raised,          \* the exception that left the call ("" when none)
    earlier          \* what the previous call was given and what it answered

vars == <<weighins, sodium_series, params, later_sodium, pc, cleaned, win,
          smooth, stats, report, raised, earlier>>

-----------------------------------------------------------------------------
(* Arithmetic helpers *)

Abs(x) == IF x < 0 THEN -x ELSE x

Max(a, b) == IF a >= b THEN a ELSE b

RECURSIVE Pow(_, _)
Pow(b, e) == IF e <= 0 THEN 1 ELSE b * Pow(b, e - 1)

RECURSIVE SumSeq(_)
SumSeq(s) == IF s = <<>> THEN 0 ELSE Head(s) + SumSeq(Tail(s))

\* s[a..b] with Python's clamping of the slice bounds (1-based, inclusive).
Slice(s, a, b) == SubSeq(s, Max(a, 1), IF b > Len(s) THEN Len(s) ELSE b)

\* round(num / den, k) once num / den is expressed in units of 10^-k:
\* the nearest integer, a tie going to the even neighbour (den > 0).
RoundHalfEven(num, den) ==
    LET q == num \div den
        r == num - q * den
    IN  IF 2 * r < den THEN q
        ELSE IF 2 * r > den THEN q + 1
        ELSE IF q % 2 = 0 THEN q ELSE q + 1

-----------------------------------------------------------------------------
(* Python values of a record's fields *)

NoneV == [t |-> "none", v |-> 0]
DateV(d) == [t |-> "date", v |-> d]
DateTimeV(h) == [t |-> "datetime", v |-> h]
IsoDateStr(d) == [t |-> "str", v |-> d]          \* "YYYY-MM-DD"
IsoDateTimeStr(h) == [t |-> "strdt", v |-> h]    \* "YYYY-MM-DDTHH:MM:SSZ"
BadStr == [t |-> "badstr", v |-> 0]              \* text that is no ISO date
EmptyStr == [t |-> "emptystr", v |-> 0]          \* ""
IntV(i) == [t |-> "int", v |-> i]
FloatV(x) == [t |-> "float", v |-> x]

\* Python truthiness, as the `or` chain of the date keys reads it.
Truthy(x) ==
    /\ x.t \notin {"none", "emptystr"}
    /\ ~(x.t \in {"int", "float"} /\ x.v = 0)

\* a or b
PyOr(a, b) == IF Truthy(a) THEN a ELSE b

\* date.isoformat()
IsoFormat(d) == IsoDateStr(d)

\* _to_date: [err |-> "" and the date, or the exception raised]
ToDate(d) ==
    IF d.t = "date" THEN [err |-> "", day |-> d.v]
    ELSE IF d.t = "datetime" THEN [err |-> "", day |-> d.v \div 24]
    ELSE IF d.t = "str" THEN [err |-> "", day |-> d.v]
    ELSE IF d.t = "strdt" THEN [err |-> "", day |-> d.v \div 24]
    ELSE IF d.t \in {"badstr", "emptystr"} THEN [err |-> "ValueError", day |-> 0]
    ELSE [err |-> "TypeError", day |-> 0]

-----------------------------------------------------------------------------
(* Numeric helpers of the module *)

\* Insertion of x into an ascending sequence, after its equals.
RECURSIVE InsertSorted(_, _)
InsertSorted(s, x) ==
    IF s = <<>> THEN <<x>>
    ELSE IF x < Head(s) THEN <<x>> \o s
    ELSE <<Head(s)>> \o InsertSorted(Tail(s), x)

RECURSIVE Sorted(_)
Sorted(s) == IF s = <<>> THEN <<>> ELSE InsertSorted(Sorted(SubSeq(s, 1, Len(s) - 1)), s[Len(s)])

\* _median, doubled (2 * median), so that the mean of the two middle values
\* stays an integer.  An empty list raises ValueError: [err, m2].
Median2(values) ==
    IF values = <<>> THEN [err |-> "ValueError", m2 |-> 0]
    ELSE LET s == Sorted(values)
             n == Len(s)
             mid == n \div 2        \* 0-based index of Python's s[mid]
         IN  IF n % 2 = 1 THEN [err |-> "", m2 |-> 2 * s[mid + 1]]
             ELSE [err |-> "", m2 |-> s[mid] + s[mid + 1]]

\* _rolling_mean: one entry per input value, None for the first window - 1;
\* an entry's value is num / window.
RollingMean(values, window) ==
    [i \in 1..Len(values) |->
        IF i >= window
        THEN [some |-> TRUE, num |-> SumSeq(Slice(values, i + 1 - window, i))]
        ELSE [some |-> FALSE, num |-> 0]]

\* _ewma with alpha = 2 / (span + 1).  EwmaNum(values, span, k) is the k-th
\* smoothed value (k from 1) times (span + 1)^(k - 1).
RECURSIVE EwmaNum(_, _, _)
EwmaNum(values, span, k) ==
    IF k = 1 THEN values[1]
    ELSE 2 * values[k] * Pow(span + 1, k - 2) + (span - 1) * EwmaNum(values, span, k - 1)

\* The smoothed values as numerators over the common denominator EwmaDen.
EwmaDen(values, span) == Pow(span + 1, Len(values) - 1)

Ewma(values, span) ==
    [k \in 1..Len(values) |->
        EwmaNum(values, span, k) * Pow(span + 1, Len(values) - k)]

\* _linear_regression_slope of the points (xs[i], ys[i] / yden): the slope as
\* <<numerator, denominator>>, denominator > 0.  With n points,
\*   n^2 * num = Sum (n x - Sum x)(n y - Sum y),  n^2 * den = Sum (n x - Sum x)^2.
LinearRegressionSlope(xs, ys, yden) ==
    LET n == Len(xs)
        sx == SumSeq(xs)
        sy == SumSeq(ys)
        num == SumSeq([i \in 1..n |-> (n * xs[i] - sx) * (n * ys[i] - sy)])
        den == SumSeq([i \in 1..n |-> (n * xs[i] - sx) * (n * xs[i] - sx)])
    IN  IF n < 2 THEN <<0, 1>>
        ELSE IF den = 0 THEN <<0, 1>>
        ELSE <<num, den * yden>>

-----------------------------------------------------------------------------
(* The locals of a call before they are bound *)

NoReport == [pending |-> TRUE]

NoWindow == [bound |-> FALSE, start_date |-> 0, end_date |-> 0,
             window_points |-> <<>>, n |-> 0]

NoSmooth == [bound |-> FALSE, method |-> "rolling_mean", smoothed |-> <<>>,
             den |-> 1, dates_s |-> <<>>, dates_s_bound |-> FALSE]

NoStats == [slope_bound |-> FALSE, slope_lbs_per_week |-> <<0, 1>>,
            net_bound |-> FALSE, first_med2 |-> 0, last_med2 |-> 0, net2 |-> 0,
            gates_bound |-> FALSE, flat_trend |-> FALSE, small_change |-> FALSE,
            detected |-> FALSE, severity |-> "null"]

NoEarlier == [called |-> FALSE, sodium_series |-> [given |-> FALSE, rows |-> <<>>],
              cleaned |-> <<>>, report |-> NoReport, raised |-> ""]

\* A list that outlives the call: what the previous call left in it.
CarriedCleaned == earlier.cleaned

\* cleaned: List[Tuple[date, float]] = []
InitialCleaned == <<>>

-----------------------------------------------------------------------------
(* Cleaning: lines 94-110 *)

\* The date a weigh-in row is read under: date, else logged_at, else weighed_at.
RowDate(row) == PyOr(PyOr(row.date, row.logged_at), row.weighed_at)

\* A loop that keeps the records with no weight.
NoWeightKept(row) == FALSE

\* w = row.get("weight"); if w is None: continue
NoWeight(row) == row.weight.t = "none"

\* The loop over weighins: [err, cleaned].  _to_date runs before the weight
\* is looked at, and its exception leaves the call.
RECURSIVE CleanRows(_, _)
CleanRows(rows, acc) ==
    IF rows = <<>> THEN [err |-> "", cleaned |-> acc]
    ELSE LET row == Head(rows) IN
         IF row.null THEN CleanRows(Tail(rows), acc)
         ELSE LET d == ToDate(RowDate(row)) IN
              IF d.err # "" THEN [err |-> d.err, cleaned |-> acc]
              ELSE IF NoWeight(row) THEN CleanRows(Tail(rows), acc)
              ELSE CleanRows(Tail(rows), Append(acc, <<d.day, row.weight.v>>))

\* list.sort(key=lambda x: x[0]): stable, ascending by date.
RECURSIVE InsertByDate(_, _)
InsertByDate(s, x) ==
    IF s = <<>> THEN <<x>>
    ELSE IF x[1] < Head(s)[1] THEN <<x>> \o s
    ELSE <<Head(s)>> \o InsertByDate(Tail(s), x)

RECURSIVE SortByDate(_)
SortByDate(s) ==
    IF s = <<>> THEN <<>>
    ELSE InsertByDate(SortByDate(SubSeq(s, 1, Len(s) - 1)), s[Len(s)])

Clean ==
    /\ pc = "clean"
    /\ LET r == CleanRows(weighins, InitialCleaned) IN
       IF r.err # ""
       THEN /\ raised' = r.err
            /\ pc' = "raised"
            /\ UNCHANGED <<cleaned, report>>
       ELSE /\ cleaned' = SortByDate(r.cleaned)
            /\ raised' = raised
            /\ IF cleaned' = <<>>
               THEN /\ report' = [detected |-> FALSE, reason |-> "no_weighins"]
                    /\ pc' = "done"
               ELSE /\ report' = report
                    /\ pc' = "window"
    /\ UNCHANGED <<weighins, sodium_series, params, later_sodium, win, smooth,
                   stats, earlier>>

-----------------------------------------------------------------------------
(* Windowing and the sufficiency gate: lines 112-131 *)

\* A window that leaves out its first day.
InWindowOpenStart(d, start_date, end_date) == d > start_date /\ d <= end_date

InWindow(d, start_date, end_date) == d >= start_date /\ d <= end_date

WindowPoints(c, start_date, end_date) ==
    SelectSeq(c, LAMBDA p : InWindow(p[1], start_date, end_date))

\* n < min_weighins, without the floor of 2
InsufficientNoFloor(n, min_weighins) == n < min_weighins

\* n < max(2, min_weighins)
Insufficient(n, min_weighins) == n < Max(2, min_weighins)

Dates(points) == [i \in 1..Len(points) |-> points[i][1]]
Weights(points) == [i \in 1..Len(points) |-> points[i][2]]

Window ==
    /\ pc = "window"
    /\ LET end_date == cleaned[Len(cleaned)][1]
           start_date == end_date - (params.window_days - 1)
           window_points == WindowPoints(cleaned, start_date, end_date)
           n == Len(window_points)
       IN  /\ win' = [bound |-> TRUE, start_date |-> start_date,
                      end_date |-> end_date, window_points |-> window_points,
                      n |-> n]
           /\ IF Insufficient(n, params.min_weighins)
              THEN /\ report' = [detected |-> FALSE,
                                 reason |-> "insufficient_weighins",
                                 window_days |-> params.window_days,
                                 weighins_count |-> n,
                                 required_min |-> params.min_weighins,
                                 window_start |-> IsoFormat(start_date),
                                 window_end |-> IsoFormat(end_date)]
                   /\ pc' = "done"
              ELSE /\ report' = report
                   /\ pc' = "smooth"
    /\ UNCHANGED <<weighins, sodium_series, params, later_sodium, cleaned,
                   smooth, stats, raised, earlier>>

-----------------------------------------------------------------------------
(* Smoothing: lines 133-155 *)

\* The indices of rm that hold a value.
Aligned(rm) == SelectSeq([i \in 1..Len(rm) |-> i], LAMBDA i : rm[i].some)

\* use_ewma_if_sparse and len(smoothed) < 2
UseEwma(use_ewma_if_sparse, n_smoothed) == use_ewma_if_sparse /\ n_smoothed < 2

Smooth ==
    /\ pc = "smooth"
    /\ LET dates == Dates(win.window_points)
           weights == Weights(win.window_points)
           rm == RollingMean(weights, params.ma_window_points)
           aligned == Aligned(rm)
           rolled == Len(aligned) >= 2
           smoothed == IF rolled THEN [k \in 1..Len(aligned) |-> rm[aligned[k]].num]
                       ELSE <<>>
       IN  IF UseEwma(params.use_ewma_if_sparse, Len(smoothed))
           THEN smooth' = [bound |-> TRUE, method |-> "ewma",
                           smoothed |-> Ewma(weights, params.ma_window_points),
                           den |-> EwmaDen(weights, params.ma_window_points),
                           dates_s |-> dates, dates_s_bound |-> TRUE]
           ELSE smooth' = [bound |-> TRUE, method |-> "rolling_mean",
                           smoothed |-> smoothed,
                           den |-> params.ma_window_points,
                           dates_s |-> IF rolled
                                       THEN [k \in 1..Len(aligned) |-> dates[aligned[k]]]
                                       ELSE <<>>,
                           dates_s_bound |-> rolled]
    /\ pc' = "trend"
    /\ UNCHANGED <<weighins, sodium_series, params, later_sodium, cleaned, win,
                   stats, report, raised, earlier>>

-----------------------------------------------------------------------------
(* Trend: lines 157-162 *)

\* The daily slope, left unconverted.
PerDay(slope) == slope

\* slope_lbs_per_day * 7.0
PerWeek(slope) == <<7 * slope[1], slope[2]>>

Trend ==
    /\ pc = "trend"
    /\ IF ~smooth.dates_s_bound
       THEN \* d0 = dates_s[0] reads a local that no branch bound
            /\ raised' = "UnboundLocalError"
            /\ pc' = "raised"
            /\ stats' = stats
       ELSE LET d0 == smooth.dates_s[1]
                xs == [i \in 1..Len(smooth.dates_s) |-> smooth.dates_s[i] - d0]
                slope_lbs_per_day == LinearRegressionSlope(xs, smooth.smoothed, smooth.den)
            IN  /\ stats' = [stats EXCEPT !.slope_bound = TRUE,
                                          !.slope_lbs_per_week = PerWeek(slope_lbs_per_day)]
                /\ raised' = raised
                /\ pc' = "net"
    /\ UNCHANGED <<weighins, sodium_series, params, later_sodium, cleaned, win,
                   smooth, report, earlier>>

-----------------------------------------------------------------------------
(* Net change via medians: lines 164-179 *)

\* weights[:k] and weights[k:] (k >= 0), weights[-1:]
Prefix(s, k) == Slice(s, 1, k)
Suffix(s, k) == Slice(s, k + 1, Len(s))
LastOne(s) == Slice(s, Len(s), Len(s))

\* A split by date alone, with no fallback when a half is empty.
HalvesByDateOnly(window_points, start_date, window_days) ==
    LET midpoint == start_date + (window_days \div 2)
    IN  << Weights(SelectSeq(window_points, LAMBDA p : p[1] <= midpoint)),
           Weights(SelectSeq(window_points, LAMBDA p : p[1] > midpoint)) >>

\* The two halves handed to _median: <<first, last>>.
Halves(window_points, start_date, window_days) ==
    LET midpoint == start_date + (window_days \div 2)
        weights == Weights(window_points)
        n == Len(window_points)
        first == Weights(SelectSeq(window_points, LAMBDA p : p[1] <= midpoint))
        last == Weights(SelectSeq(window_points, LAMBDA p : p[1] > midpoint))
        half == n \div 2
    IN  IF first = <<>> \/ last = <<>>
        THEN << IF half > 0 THEN Prefix(weights, half) ELSE Prefix(weights, 1),
                IF half < n THEN Suffix(weights, half) ELSE LastOne(weights) >>
        ELSE <<first, last>>

NetChange ==
    /\ pc = "net"
    /\ LET h == Halves(win.window_points, win.start_date, params.window_days)
           first_med == Median2(h[1])
           last_med == Median2(h[2])
       IN  IF first_med.err # "" \/ last_med.err # ""
           THEN /\ raised' = "ValueError"
                /\ pc' = "raised"
                /\ stats' = stats
           ELSE /\ stats' = [stats EXCEPT !.net_bound = TRUE,
                                          !.first_med2 = first_med.m2,
                                          !.last_med2 = last_med.m2,
                                          !.net2 = last_med.m2 - first_med.m2]
                /\ raised' = raised
                /\ pc' = "decide"
    /\ UNCHANGED <<weighins, sodium_series, params, later_sodium, cleaned, win,
                   smooth, report, earlier>>

-----------------------------------------------------------------------------
(* Plateau gates and severity: lines 181-192 *)

\* abs(slope) < limit, slope = <<num, den>> in hundredths, limit in hundredths
SlopeBelow(slope, limit) == Abs(slope[1]) < limit * slope[2]

\* abs(net) < limit, net2 = 2 * net
NetBelow(net2, limit) == Abs(net2) < 2 * limit

\* One gate is enough.
DetectedEither(flat_trend, small_change) == flat_trend \/ small_change

Detected(flat_trend, small_change) == flat_trend /\ small_change

\* "strong" as soon as one magnitude is under its strong limit.
SeverityEither(detected, slope, net2, p) ==
    IF detected
    THEN IF SlopeBelow(slope, p.strong_slope_lbs_per_week)
            \/ NetBelow(net2, p.strong_net_change_lbs)
         THEN "strong" ELSE "mild"
    ELSE "null"

Severity(detected, slope, net2, p) ==
    IF detected
    THEN IF SlopeBelow(slope, p.strong_slope_lbs_per_week)
            /\ NetBelow(net2, p.strong_net_change_lbs)
         THEN "strong" ELSE "mild"
    ELSE "null"

Decide ==
    /\ pc = "decide"
    /\ LET flat_trend == SlopeBelow(stats.slope_lbs_per_week, params.slope_flat_lbs_per_week)
           small_change == NetBelow(stats.net2, params.net_change_lbs)
           detected == Detected(flat_trend, small_change)
       IN  stats' = [stats EXCEPT !.gates_bound = TRUE,
                                  !.flat_trend = flat_trend,
                                  !.small_change = small_change,
                                  !.detected = detected,
                                  !.severity = Severity(detected, stats.slope_lbs_per_week,
                                                        stats.net2, params)]
    /\ pc' = "sodium"
    /\ UNCHANGED <<weighins, sodium_series, params, later_sodium, cleaned, win,
                   smooth, report, raised, earlier>>

-----------------------------------------------------------------------------
(* Optional sodium flag and the returned report: lines 194-225 *)

HighSodiumFlag == "possible_water_retention_high_sodium"

\* The loop over sodium_series: [err, cleaned] with (date, sodium) pairs.
RECURSIVE CleanSodium(_, _)
CleanSodium(rows, acc) ==
    IF rows = <<>> THEN [err |-> "", cleaned |-> acc]
    ELSE LET row == Head(rows)
             d == ToDate(PyOr(row.date, row.logged_at))
         IN  IF d.err # "" THEN [err |-> d.err, cleaned |-> acc]
             ELSE IF row.sodium.t = "none" THEN CleanSodium(Tail(rows), acc)
             ELSE CleanSodium(Tail(rows), Append(acc, <<d.day, row.sodium.v>>))

\* sum(1 for s in sodium_window if s >= sodium_spike_mg)
SpikeDays(sodium_cleaned, start_date, end_date, sodium_spike_mg) ==
    Len(SelectSeq(WindowPoints(sodium_cleaned, start_date, end_date),
                  LAMBDA p : p[2] >= sodium_spike_mg))

\* if sodium_series:
SodiumSupplied(ss) == ss.given /\ ss.rows # <<>>

\* round(slope, 3) of a slope <<num, den>> given in hundredths: the whole
\* hundredths give tens of thousandths, the remainder is rounded.
Thousandths(slope) ==
    LET q == slope[1] \div slope[2]
        r == slope[1] - q * slope[2]
    IN  10 * q + RoundHalfEven(10 * r, slope[2])

FullReport(flags) ==
    [detected |-> stats.detected,
     window_days |-> params.window_days,
     window_start |-> IsoFormat(win.start_date),
     window_end |-> IsoFormat(win.end_date),
     weighins_count |-> win.n,
     smoothing |-> smooth.method,
     \* thousandths of a pound per week
     slope_lbs_per_week |-> Thousandths(stats.slope_lbs_per_week),
     \* hundredths of a pound
     first_half_median |-> RoundHalfEven(stats.first_med2, 2),
     last_half_median |-> RoundHalfEven(stats.last_med2, 2),
     net_change_lbs |-> RoundHalfEven(stats.net2, 2),
     flat_trend |-> stats.flat_trend,
     small_change |-> stats.small_change,
     severity |-> stats.severity,
     flags |-> flags]

SodiumFlag ==
    /\ pc = "sodium"
    /\ IF SodiumSupplied(sodium_series)
       THEN LET c == CleanSodium(sodium_series.rows, <<>>) IN
            IF c.err # ""
            THEN /\ raised' = c.err
                 /\ pc' = "raised"
                 /\ report' = report
            ELSE LET spike_days == SpikeDays(c.cleaned, win.start_date, win.end_date,
                                             params.sodium_spike_mg)
                 IN  /\ report' = FullReport(
                            IF stats.detected /\ spike_days >= params.sodium_spike_days_flag
                            THEN <<HighSodiumFlag>> ELSE <<>>)
                     /\ raised' = raised
                     /\ pc' = "done"
       ELSE /\ report' = FullReport(<<>>)
            /\ raised' = raised
            /\ pc' = "done"
    /\ UNCHANGED <<weighins, sodium_series, params, later_sodium, cleaned, win,
                   smooth, stats, earlier>>

-----------------------------------------------------------------------------
(* A further call with the same weighins and parameters *)

Finished == pc \in {"done", "raised"}

CallAgain ==
    /\ Finished
    /\ later_sodium # <<>>
    /\ earlier' = [called |-> TRUE, sodium_series |-> sodium_series,
                   cleaned |-> cleaned, report |-> report, raised |-> raised]
    /\ sodium_series' = Head(later_sodium)
    /\ later_sodium' = Tail(later_sodium)
    /\ pc' = "clean"
    /\ cleaned' = <<>>
    /\ win' = NoWindow
    /\ smooth' = NoSmooth
    /\ stats' = NoStats
    /\ report' = NoReport
    /\ raised' = ""
    /\ UNCHANGED <<weighins, params>>

Step == Clean \/ Window \/ Smooth \/ Trend \/ NetChange \/ Decide \/ SodiumFlag

Next == Step \/ CallAgain

-----------------------------------------------------------------------------
(* Arguments *)

MaxRows == 3

SeqsUpTo(S, n) == UNION {[1..k -> S] : k \in 0..n}

Row(d, l, w, wt) == [null |-> FALSE, date |-> d, logged_at |-> l,
                     weighed_at |-> w, weight |-> wt]

\* None in the list of weigh-ins
NullRow == [null |-> TRUE, date |-> NoneV, logged_at |-> NoneV,
            weighed_at |-> NoneV, weight |-> NoneV]

SodiumRow(d, l, s) == [date |-> d, logged_at |-> l, sodium |-> s]

NoSodium == [given |-> FALSE, rows |-> <<>>]

\* The defaults of the keyword arguments (weights in hundredths of a pound).
DefaultParams ==
    [window_days |-> 14, min_weighins |-> 10, ma_window_points |-> 7,
     slope_flat_lbs_per_week |-> 25, net_change_lbs |-> 50,
     strong_slope_lbs_per_week |-> 15, strong_net_change_lbs |-> 30,
     use_ewma_if_sparse |-> TRUE, sodium_spike_mg |-> 2300,
     sodium_spike_days_flag |-> 4]

InitLocals ==
    /\ pc = "clean"
    /\ cleaned = <<>>
    /\ win = NoWindow
    /\ smooth = NoSmooth
    /\ stats = NoStats
    /\ report = NoReport
    /\ raised = ""
    /\ earlier = NoEarlier

\* Weigh-in records of every shape the cleaning loop tells apart.
GeneralRows ==
    { NullRow,
      Row(IsoDateStr(20), NoneV, NoneV, FloatV(15000)),
      Row(NoneV, DateV(21), NoneV, FloatV(15010)),
      Row(EmptyStr, NoneV, DateTimeV(22 * 24 + 7), FloatV(15030)),
      Row(IsoDateTimeStr(18 * 24 + 23), NoneV, NoneV, FloatV(15000)),
      Row(IsoDateStr(20), NoneV, NoneV, NoneV),
      Row(NoneV, NoneV, NoneV, FloatV(15000)),
      Row(BadStr, NoneV, NoneV, FloatV(15000)),
      Row(IntV(5), NoneV, NoneV, FloatV(15000)) }

GeneralParams ==
    { [DefaultParams EXCEPT !.window_days = c[1], !.min_weighins = c[2],
                            !.ma_window_points = c[3], !.use_ewma_if_sparse = c[4]] :
        c \in { <<3, 1, 1, TRUE>>, <<3, 3, 2, TRUE>>, <<1, 0, 2, FALSE>>,
                <<5, 2, 2, FALSE>>, <<5, 2, 3, TRUE>>, <<0, 1, 1, TRUE>> } }

Init ==
    /\ weighins \in SeqsUpTo(GeneralRows, MaxRows)
    /\ sodium_series = NoSodium
    /\ params \in GeneralParams
    /\ later_sodium = <<>>
    /\ InitLocals

Spec == Init /\ [][Step]_vars

-----------------------------------------------------------------------------
(* Properties of cleaning and of the two early exits *)

Rows == {weighins[i] : i \in 1..Len(weighins)}

\* A record with no date under any of the three keys.
NoDate(row) == ~row.null /\ row.date.t = "none" /\ row.logged_at.t = "none"
               /\ row.weighed_at.t = "none"

\* A record whose date is a string that is no ISO date.
UnparseableDate(row) == ~row.null /\ RowDate(row).t = "badstr"

\* A record with a date field that is neither a date, a datetime nor a string.
UnsupportedDate(row) ==
    /\ ~row.null
    /\ \E f \in {row.date, row.logged_at, row.weighed_at} : f.t \in {"int", "float"}

\* C1 (as claimed): a record with no date, or with a date string that cannot
\* be parsed, is dropped and no error is raised; a TypeError leaves the call
\* only when some record's date field is of an unsupported type.
C1_MalformedDatesAreDropped ==
    pc # "clean" =>
        /\ (raised = "TypeError" => \E row \in Rows : UnsupportedDate(row))
        /\ (\A row \in Rows : ~UnsupportedDate(row)) =>
                raised \notin {"TypeError", "ValueError"}

\* The dates of the cleaned series, and the count of the samples in the
\* window that ends at the latest of them.
CleanedDates == {cleaned[i][1] : i \in 1..Len(cleaned)}
LatestDate == CHOOSE d \in CleanedDates : \A e \in CleanedDates : e <= d
WindowedCount ==
    Cardinality({i \in 1..Len(cleaned) :
                    /\ cleaned[i][1] >= LatestDate - (params.window_days - 1)
                    /\ cleaned[i][1] <= LatestDate})

StatKeys == {"slope_lbs_per_week", "first_half_median", "last_half_median",
             "net_change_lbs", "severity", "flags", "flat_trend", "small_change",
             "smoothing"}

\* C2: when fewer than max(2, min_weighins) cleaned samples lie in the window,
\* the call returns detected = false with reason "insufficient_weighins", and
\* neither computes nor reports any statistic.
C2_InsufficientWeighins ==
    (pc \notin {"clean", "window"} /\ cleaned # <<>>
        /\ WindowedCount < Max(2, params.min_weighins)) =>
        /\ pc = "done"
        /\ report.detected = FALSE
        /\ report.reason = "insufficient_weighins"
        /\ report.weighins_count = WindowedCount
        /\ DOMAIN report \cap StatKeys = {}
        /\ ~smooth.bound /\ ~stats.slope_bound /\ ~stats.net_bound /\ ~stats.gates_bound

C2_Witness ==
    /\ pc = "done"
    /\ "reason" \in DOMAIN report
    /\ report.reason = "insufficient_weighins"
    /\ report.weighins_count = 2
    /\ params.min_weighins = 3
    /\ Len(cleaned) = 3

\* Every record is one the cleaning loop drops: None, or a dated record
\* with no weight.
AllDropped ==
    \A row \in Rows :
        IF row.null THEN TRUE
        ELSE row.weight.t = "none" /\ ToDate(RowDate(row)).err = ""

\* C3: when the cleaned series is empty (no records, or all of them dropped),
\* the call returns detected = false with reason "no_weighins" and computes
\* no window.
C3_NoWeighins ==
    (pc # "clean" /\ AllDropped) =>
        /\ pc = "done"
        /\ report = [detected |-> FALSE, reason |-> "no_weighins"]
        /\ cleaned = <<>>
        /\ ~win.bound

C3_Witness ==
    /\ pc = "done"
    /\ report = [detected |-> FALSE, reason |-> "no_weighins"]
    /\ Len(weighins) >= 2
    /\ AllDropped
    /\ \E row \in Rows : ~row.null

-----------------------------------------------------------------------------
(* Gates and severity *)

MaxGateRows == 3

\* Dated weigh-ins a few hundredths of a pound apart: slopes and net changes
\* on both sides of every threshold.
GateRows ==
    { Row(IsoDateStr(d), NoneV, NoneV, FloatV(w)) :
        d \in {20, 21}, w \in {15000, 15002, 15003, 15040, 15060} }

\* The default thresholds, and a set whose "strong" limits are the wider ones.
GateParams ==
    { [DefaultParams EXCEPT !.window_days = 5, !.min_weighins = 2,
                            !.ma_window_points = c[1],
                            !.strong_slope_lbs_per_week = c[2],
                            !.strong_net_change_lbs = c[3]] :
        c \in { <<1, 15, 30>>, <<2, 15, 30>>, <<1, 40, 60>>, <<2, 40, 30>> } }

InitGate ==
    /\ weighins \in {w \in SeqsUpTo(GateRows, MaxGateRows) : Len(w) >= 2}
    /\ sodium_series = NoSodium
    /\ params \in GateParams
    /\ later_sodium = <<>>
    /\ InitLocals

SpecGate == InitGate /\ [][Step]_vars

FullEvaluation == pc = "done" /\ "severity" \in DOMAIN report

\* The magnitudes the gates compare, from the locals of the call:
\* abs(weekly slope) < limit and abs(net change) < limit.
WeeklySlopeUnder(limit) ==
    Abs(stats.slope_lbs_per_week[1]) < limit * stats.slope_lbs_per_week[2]
NetChangeUnder(limit) == Abs(stats.last_med2 - stats.first_med2) < 2 * limit

\* C7: in a full report detected = flat_trend AND small_change; severity is
\* null exactly when nothing is detected, "strong" exactly when detected with
\* both magnitudes under the strong limits, "mild" in every other detected
\* case.
C7_GatesAndSeverity ==
    FullEvaluation =>
        LET strong == /\ WeeklySlopeUnder(params.strong_slope_lbs_per_week)
                      /\ NetChangeUnder(params.strong_net_change_lbs)
        IN  /\ report.flat_trend = WeeklySlopeUnder(params.slope_flat_lbs_per_week)
            /\ report.small_change = NetChangeUnder(params.net_change_lbs)
            /\ report.detected = (report.flat_trend /\ report.small_change)
            /\ report.severity \in {"null", "strong", "mild"}
            /\ (report.severity = "null") = ~report.detected
            /\ (report.severity = "strong") = (report.detected /\ strong)
            /\ (report.severity = "mild") = (report.detected /\ ~strong)

\* Detected, under the strong slope limit but not under the strong net limit.
C7_Witness ==
    /\ FullEvaluation
    /\ report.detected
    /\ report.severity = "mild"
    /\ WeeklySlopeUnder(params.strong_slope_lbs_per_week)
    /\ stats.slope_lbs_per_week[1] # 0

-----------------------------------------------------------------------------
(* The sodium flag, and repeated calls *)

MaxSodiumRows == 3

\* A plateau (two equal weights) and a clear loss, each inside a 3-day window
\* that ends on day 22.
SodiumWeighins ==
    { << Row(IsoDateStr(20), NoneV, NoneV, FloatV(15000)),
         Row(IsoDateStr(22), NoneV, NoneV, FloatV(15000)) >>,
      << Row(IsoDateStr(22), NoneV, NoneV, FloatV(14900)),
         Row(IsoDateStr(20), NoneV, NoneV, FloatV(15000)) >> }

SodiumRows ==
    { SodiumRow(IsoDateStr(21), NoneV, FloatV(2300)),
      SodiumRow(IsoDateStr(21), NoneV, FloatV(2299)),
      SodiumRow(NoneV, DateV(22), FloatV(2500)),
      SodiumRow(IsoDateStr(19), NoneV, FloatV(2500)),
      SodiumRow(IsoDateStr(21), NoneV, NoneV),
      SodiumRow(NoneV, NoneV, FloatV(2500)) }

SodiumParams ==
    { [DefaultParams EXCEPT !.window_days = 3, !.min_weighins = 2,
                            !.ma_window_points = 1,
                            !.sodium_spike_days_flag = k] : k \in {1, 2} }

\* The sodium_series of the second call: the same again, none, or one of two
\* fixed lists.
SecondSodium(first) ==
    { first, NoSodium,
      [given |-> TRUE, rows |-> << SodiumRow(IsoDateStr(21), NoneV, FloatV(2300)),
                                   SodiumRow(IsoDateStr(22), NoneV, FloatV(2400)) >>],
      [given |-> TRUE, rows |-> << SodiumRow(NoneV, NoneV, FloatV(2500)) >>] }

InitSodium ==
    /\ weighins \in SodiumWeighins
    /\ sodium_series \in
         {NoSodium} \cup {[given |-> TRUE, rows |-> r] : r \in SeqsUpTo(SodiumRows, MaxSodiumRows)}
    /\ params \in SodiumParams
    /\ later_sodium \in {<<s>> : s \in SecondSodium(sodium_series)}
    /\ InitLocals

SpecSodium == InitSodium /\ [][Next]_vars

\* The days of the window on which some sodium record is at or over the
\* spike level.
SpikeDates ==
    { d \in win.start_date..win.end_date :
        \E i \in 1..Len(sodium_series.rows) :
            LET row == sodium_series.rows[i] IN
            /\ ToDate(PyOr(row.date, row.logged_at)).err = ""
            /\ ToDate(PyOr(row.date, row.logged_at)).day = d
            /\ row.sodium.t # "none"
            /\ row.sodium.v >= params.sodium_spike_mg }

Flagged == \E i \in 1..Len(report.flags) : report.flags[i] = HighSodiumFlag

\* C8 (as claimed): with a sodium series supplied, a full report carries the
\* high-sodium flag exactly when a plateau is detected and the number of
\* days of the window with a sodium value >= sodium_spike_mg is at least
\* sodium_spike_days_flag, several records on one date counting as one day.
C8_FlagCountsSpikeDays ==
    (FullEvaluation /\ SodiumSupplied(sodium_series)) =>
        Flagged = (report.detected
                   /\ Cardinality(SpikeDates) >= params.sodium_spike_days_flag)

ReportKeysButFlags ==
    {"detected", "window_days", "window_start", "window_end", "weighins_count",
     "smoothing", "slope_lbs_per_week", "first_half_median", "last_half_median",
     "net_change_lbs", "flat_trend", "small_change", "severity"}

\* C9 (as claimed): two calls that differ only in sodium_series have the same
\* outcome in every field but flags, and without a sodium series the flags
\* list is empty.
C9_SodiumOnlyAffectsFlags ==
    (Finished /\ earlier.called) =>
        /\ raised = earlier.raised
        /\ DOMAIN report = DOMAIN earlier.report
        /\ \A k \in DOMAIN report \ {"flags"} : report[k] = earlier.report[k]
        /\ (FullEvaluation /\ ~sodium_series.given) => report.flags = <<>>

-----------------------------------------------------------------------------
(* Series under the default parameters: flat ones and steadily falling ones *)

MaxFlatRows == 10
MaxLossRows == 10

\* The minimum number of weigh-ins of the default parameters.
MinRows == DefaultParams.min_weighins

\* The days of a default window that starts on day 0.
WindowDays == 0..(DefaultParams.window_days - 1)
LastDay == DefaultParams.window_days - 1

RECURSIVE SortedSeqOf(_)
SortedSeqOf(S) ==
    IF S = {} THEN <<>>
    ELSE LET m == CHOOSE x \in S : \A y \in S : x <= y
         IN  <<m>> \o SortedSeqOf(S \ {m})

DatedRows(dates, values) ==
    [i \in 1..Len(dates) |-> Row(IsoDateStr(dates[i]), NoneV, NoneV, FloatV(values[i]))]

\* n distinct days of the window, or n samples crowded on its last two days.
DistinctDays(n) == {SortedSeqOf(S) : S \in {T \in SUBSET WindowDays : Cardinality(T) = n}}
CrowdedDays(n) == {[i \in 1..n |-> IF i <= k THEN LastDay - 1 ELSE LastDay] : k \in 1..(n - 1)}

\* Values 0.1 under or over 150.00: a step up, a step down, or alternating.
FlatValues(n) ==
    {[i \in 1..n |-> IF i <= k THEN 14990 ELSE 15010] : k \in 0..n}
    \cup {[i \in 1..n |-> IF i <= k THEN 15010 ELSE 14990] : k \in 0..n}
    \cup {[i \in 1..n |-> IF i % 2 = 0 THEN 15005 ELSE 14995]}

InitFlat ==
    /\ \E n \in MinRows..MaxFlatRows :
         \E d \in DistinctDays(n) \cup CrowdedDays(n), v \in FlatValues(n) :
            weighins = DatedRows(d, v)
    /\ sodium_series = NoSodium
    /\ params = DefaultParams
    /\ later_sodium = <<>>
    /\ InitLocals

SpecFlat == InitFlat /\ [][Step]_vars

\* The cleaned samples that lie in the window ending at the latest date.
Windowed ==
    {i \in 1..Len(cleaned) :
        /\ cleaned[i][1] >= LatestDate - (params.window_days - 1)
        /\ cleaned[i][1] <= LatestDate}

\* At least 10 samples in the window, all within 0.1 of one constant, under
\* the default parameters.
FlatWindow ==
    /\ cleaned # <<>>
    /\ params = DefaultParams
    /\ Cardinality(Windowed) >= 10
    /\ \A i, j \in Windowed : cleaned[i][2] - cleaned[j][2] <= 20

\* No two samples of the window share a date.
OnePerDate == \A i, j \in Windowed : i # j => cleaned[i][1] # cleaned[j][1]

PlateauReported ==
    /\ FullEvaluation
    /\ report.detected = TRUE
    /\ report.severity \in {"strong", "mild"}

\* C4 (as claimed): every series of at least 10 samples in the window whose
\* values lie within 0.1 of one constant, whatever their dates, is reported as
\* a plateau of severity "strong" or "mild".
C4_FlatSeriesDetected ==
    (Finished /\ FlatWindow) => PlateauReported

\* C4 (amended): the same, for series with at most one sample per date.
C4_FlatDailySeriesDetected ==
    (Finished /\ FlatWindow /\ OnePerDate) => PlateauReported

\* A step of 0.2 in a series of distinct days: the steepest smoothed trend.
C4_Witness ==
    /\ FullEvaluation
    /\ FlatWindow
    /\ OnePerDate
    /\ report.detected
    /\ report.slope_lbs_per_week = 200
    /\ report.severity = "mild"

-----------------------------------------------------------------------------
(* Steadily falling series under the default parameters *)

\* a samples on day 0, b on day j, c on day j + 1 and the rest on the last day.
ClusteredDays(n) ==
    { [i \in 1..n |-> IF i <= c[1] THEN 0
                      ELSE IF i <= c[1] + c[2] THEN j
                      ELSE IF i <= c[1] + c[2] + c[3] THEN j + 1
                      ELSE LastDay] :
        j \in {1, 6, 7, 12},
        c \in {t \in (0..n) \X (0..n) \X (0..n) : t[1] + t[2] + t[3] <= n} }

\* From 155.00 down: rate hundredths a day between dates, eps between two
\* samples of one date.
RECURSIVE FallingValue(_, _, _, _)
FallingValue(dates, rate, eps, i) ==
    IF i = 1 THEN 15500
    ELSE FallingValue(dates, rate, eps, i - 1)
         - (IF dates[i] > dates[i - 1] THEN rate * (dates[i] - dates[i - 1]) ELSE eps)

InitLoss ==
    /\ \E n \in MinRows..MaxLossRows :
         \E d \in DistinctDays(n) \cup ClusteredDays(n), rate \in {15, 20}, eps \in {1, 5} :
            weighins = DatedRows(d, [i \in 1..n |-> FallingValue(d, rate, eps, i)])
    /\ sodium_series = NoSodium
    /\ params = DefaultParams
    /\ later_sodium = <<>>
    /\ InitLocals

SpecLoss == InitLoss /\ [][Step]_vars

\* The samples reach from the first day of the window to its last, and from
\* each to the next the weight falls, by at least 0.15 for every day between
\* them.
FallsAcrossWindow ==
    /\ win.bound
    /\ params = DefaultParams
    /\ win.n >= 2
    /\ win.window_points[1][1] = win.start_date
    /\ \A i \in 1..(win.n - 1) :
          LET a == win.window_points[i]
              b == win.window_points[i + 1]
          IN  b[2] < a[2] /\ a[2] - b[2] >= 15 * (b[1] - a[1])

-----------------------------------------------------------------------------
(* Perfectly linear series *)

MaxLinearRows == 5

LinearDays == 0..7

LinearParams ==
    { [DefaultParams EXCEPT !.window_days = 8, !.min_weighins = 2,
                            !.ma_window_points = c[1],
                            !.use_ewma_if_sparse = c[2]] :
        c \in {1, 2, 3} \X BOOLEAN }

InitLinear ==
    /\ \E n \in 2..MaxLinearRows :
         \E S \in {T \in SUBSET LinearDays : Cardinality(T) = n}, m \in {-20, -7, 0, 4} :
            weighins = DatedRows(SortedSeqOf(S),
                                 [i \in 1..n |-> 15500 + m * SortedSeqOf(S)[i]])
    /\ sodium_series = NoSodium
    /\ params \in LinearParams
    /\ later_sodium = <<>>
    /\ InitLocals

SpecLinear == InitLinear /\ [][Step]_vars

\* The rise and the run between the first and the last sample of the window.
Rise == win.window_points[win.n][2] - win.window_points[1][2]
Run == win.window_points[win.n][1] - win.window_points[1][1]

\* Every sample lies on the line through the first and the last one.
LinearWindow ==
    /\ win.bound /\ win.n >= 2 /\ Run > 0
    /\ \A i \in 1..win.n :
          (win.window_points[i][2] - win.window_points[1][2]) * Run
              = Rise * (win.window_points[i][1] - win.window_points[1][1])

\* Consecutive samples are a constant number of days apart.
EvenlySpaced ==
    \A i \in 1..(win.n - 2) :
        win.window_points[i + 1][1] - win.window_points[i][1]
            = win.window_points[i + 2][1] - win.window_points[i + 1][1]

\* slope_lbs_per_week = 7 * m, with m = Rise / Run.
WeeklySlopeIsSevenM ==
    stats.slope_lbs_per_week[1] * Run = 7 * Rise * stats.slope_lbs_per_week[2]

\* C6 (as claimed): for a perfectly linear series of slope m per day the
\* weekly slope is 7 * m, under the rolling mean and under the ewma fallback.
C6_LinearSlopeAnyMethod ==
    (FullEvaluation /\ LinearWindow) => WeeklySlopeIsSevenM

\* C6 (amended): for a perfectly linear series of slope m per day with evenly
\* spaced samples, the weekly slope is 7 * m when the rolling mean is the
\* smoothing method.
C6_LinearSlopeRollingMean ==
    (FullEvaluation /\ LinearWindow /\ EvenlySpaced /\ report.smoothing = "rolling_mean")
        => WeeklySlopeIsSevenM

C6_Witness ==
    /\ FullEvaluation
    /\ LinearWindow
    /\ EvenlySpaced
    /\ report.smoothing = "rolling_mean"
    /\ params.ma_window_points = 3
    /\ win.n = 5
    /\ Rise = -20 * Run
    /\ report.slope_lbs_per_week = -1400

-----------------------------------------------------------------------------
(* Degenerate smoothing *)

\* The call passed the sufficiency gate: at least max(2, min_weighins)
\* cleaned samples lie in the window.
PassesGate ==
    /\ cleaned # <<>>
    /\ WindowedCount >= Max(2, params.min_weighins)

\* Fewer than 2 smoothed points, or every smoothed point on one date.
DegenerateSmoothing ==
    /\ smooth.bound
    /\ \/ Len(smooth.smoothed) < 2
       \/ \A i, j \in 1..Len(smooth.dates_s) : smooth.dates_s[i] = smooth.dates_s[j]

\* C11 (as claimed): every call that passes the sufficiency gate returns a
\* full report, for either value of use_ewma_if_sparse; and when smoothing
\* leaves fewer than 2 points, or only points of one date, the slope reported
\* is 0.
C11_DegenerateSlopeIsZero ==
    (pc \in {"done", "raised"} /\ PassesGate) =>
        /\ FullEvaluation
        /\ DegenerateSmoothing => report.slope_lbs_per_week = 0

-----------------------------------------------------------------------------
(* The halves of the window *)

\* The raw windowed values, and those dated up to, and after, the midpoint
\* start_date + floor(window_days / 2).
WindowValues == [i \in 1..win.n |-> win.window_points[i][2]]
Midpoint == win.start_date + (params.window_days \div 2)
EarlyValues ==
    LET early == SelectSeq(win.window_points, LAMBDA p : p[1] <= Midpoint)
    IN  [i \in 1..Len(early) |-> early[i][2]]
LateValues ==
    LET late == SelectSeq(win.window_points, LAMBDA p : p[1] > Midpoint)
    IN  [i \in 1..Len(late) |-> late[i][2]]

\* The split by date leaves one side empty.
SplitByIndex == EarlyValues = <<>> \/ LateValues = <<>>

\* The halves as stated: by date, or else the first n // 2 values and the
\* remaining ones.
StatedHalves ==
    IF SplitByIndex
    THEN << SubSeq(WindowValues, 1, win.n \div 2),
            SubSeq(WindowValues, (win.n \div 2) + 1, win.n) >>
    ELSE << EarlyValues, LateValues >>

\* C12: in a call that passes the sufficiency gate the median never meets an
\* empty list; the halves it is given are the values dated up to the midpoint
\* and those after it, or, when one of these is empty, the first n // 2 values
\* and the rest, both non-empty; and the net change is the median of the last
\* half minus the median of the first.
C12_HalvesNonEmpty ==
    /\ PassesGate => raised # "ValueError"
    /\ (PassesGate /\ pc \in {"decide", "sodium", "done"}) => stats.net_bound
    /\ stats.net_bound =>
          /\ StatedHalves[1] # <<>>
          /\ StatedHalves[2] # <<>>
          /\ stats.first_med2 = Median2(StatedHalves[1]).m2
          /\ stats.last_med2 = Median2(StatedHalves[2]).m2
          /\ stats.net2 = stats.last_med2 - stats.first_med2

\* Three samples, all after the midpoint: the split falls back to indices.
C12_Witness ==
    /\ FullEvaluation
    /\ PassesGate
    /\ win.n = 3
    /\ EarlyValues = <<>>
    /\ Len(StatedHalves[1]) = 1
    /\ Len(StatedHalves[2]) = 2
    /\ report.net_change_lbs # 0
    /\ report.net_change_lbs = report.last_half_median - report.first_half_median

====
